---- MODULE Spec2Model ----
(***************************************************************************)
(* gofml: the command dispatcher (main.go) and the init task (init.go).    *)
(*                                                                         *)
(* A string is a sequence of atoms.  The atoms "/" and "." are the two     *)
(* characters the path functions inspect; every other atom ("a", "src",    *)
(* "envrc", ...) stands for a run of ordinary characters, which the path   *)
(* functions only copy.  ".envrc" is <<".", "envrc">>.                     *)
(*                                                                         *)
(* init.go holds two variants of the init task: the older one (lines       *)
(* 1-163: flags -g -p -n, -g is the GOPATH itself) and the newer one       *)
(* (lines 164-329: flags -g -n, -g is the root, GOFMLROOT consulted).      *)
(***************************************************************************)
EXTENDS Integers, Sequences, FiniteSets, TLC

\* ------------------------------------------------------------------ bounds
\* the longest import path, in "/"-separated components
MaxComps == 2
\* the number of invocations of the program in one behaviour
MaxRuns == 2

\* ---------------------------------------------------------------- strings
Sep == "/"
Dot == "."
EmptyStr == <<>>

\* strings.Join(elems, "/")
RECURSIVE StringsJoin(_)
StringsJoin(elems) ==
    IF Len(elems) = 0 THEN EmptyStr
    ELSE IF Len(elems) = 1 THEN elems[1]
    ELSE elems[1] \o <<Sep>> \o StringsJoin(Tail(elems))

\* lazybuf backtrack of path.Clean: drop the last element of out, down to dotdot
RECURSIVE Backtrack(_, _, _)
Backtrack(out, w, dotdot) ==
    IF w > dotdot /\ out[w + 1] # Sep THEN Backtrack(out, w - 1, dotdot)
    ELSE SubSeq(out, 1, w)

\* the index after the path element that starts at r
RECURSIVE ElemEnd(_, _)
ElemEnd(path, r) ==
    IF r <= Len(path) /\ path[r] # Sep THEN ElemEnd(path, r + 1) ELSE r

\* the loop of filepath.Clean; r is 1-based, out is the buffer written so far
RECURSIVE CleanLoop(_, _, _, _)
CleanLoop(path, r, out, dotdot) ==
    LET n == Len(path)
        rooted == path[1] = Sep
    IN  IF r > n THEN out
        ELSE IF path[r] = Sep THEN CleanLoop(path, r + 1, out, dotdot)
        ELSE IF path[r] = Dot /\ (r = n \/ path[r + 1] = Sep)
             THEN CleanLoop(path, r + 1, out, dotdot)
        ELSE IF path[r] = Dot /\ path[r + 1] = Dot /\ (r + 1 = n \/ path[r + 2] = Sep)
             THEN IF Len(out) > dotdot
                     THEN CleanLoop(path, r + 2, Backtrack(out, Len(out) - 1, dotdot), dotdot)
                  ELSE IF ~rooted
                     THEN LET o2 == (IF Len(out) > 0 THEN Append(out, Sep) ELSE out)
                                        \o <<Dot, Dot>>
                          IN  CleanLoop(path, r + 2, o2, Len(o2))
                  ELSE CleanLoop(path, r + 2, out, dotdot)
        ELSE LET o2 == IF (rooted /\ Len(out) # 1) \/ (~rooted /\ Len(out) # 0)
                          THEN Append(out, Sep) ELSE out
                 e == ElemEnd(path, r)
             IN  CleanLoop(path, e, o2 \o SubSeq(path, r, e - 1), dotdot)

\* filepath.Clean
Clean(path) ==
    IF path = EmptyStr THEN <<Dot>>
    ELSE LET rooted == path[1] = Sep
             out == IF rooted THEN CleanLoop(path, 2, <<Sep>>, 1)
                              ELSE CleanLoop(path, 1, EmptyStr, 0)
         IN  IF out = EmptyStr THEN <<Dot>> ELSE out

\* the elements from the first non-empty one on
RECURSIVE FromFirstNonEmpty(_)
FromFirstNonEmpty(elems) ==
    IF Len(elems) = 0 THEN <<>>
    ELSE IF elems[1] # EmptyStr THEN elems
    ELSE FromFirstNonEmpty(Tail(elems))

\* filepath.Join
Join(elems) ==
    LET rest == FromFirstNonEmpty(elems)
    IN  IF Len(rest) = 0 THEN EmptyStr ELSE Clean(StringsJoin(rest))

\* path without its trailing separators
RECURSIVE StripTrailingSeps(_)
StripTrailingSeps(path) ==
    IF Len(path) > 0 /\ path[Len(path)] = Sep
       THEN StripTrailingSeps(SubSeq(path, 1, Len(path) - 1))
       ELSE path

\* the index of the last separator of path at or before i, 0 if none
RECURSIVE LastSep(_, _)
LastSep(path, i) ==
    IF i >= 1 /\ path[i] # Sep THEN LastSep(path, i - 1) ELSE i

\* filepath.Base
Base(path) ==
    IF path = EmptyStr THEN <<Dot>>
    ELSE LET p == StripTrailingSeps(path)
             i == LastSep(p, Len(p))
             q == IF i >= 1 THEN SubSeq(p, i + 1, Len(p)) ELSE p
         IN  IF q = EmptyStr THEN <<Sep>> ELSE q

\* --------------------------------------------------------- command registry
Letters == <<"a", "b", "c", "d", "e", "f", "g", "h", "i", "j", "k", "l", "m",
             "n", "o", "p", "q", "r", "s", "t", "u", "v", "w", "x", "y", "z">>

\* the position of a letter in the alphabet (its byte order)
Ord(c) == CHOOSE i \in 1..Len(Letters) : Letters[i] = c

\* a < b for strings of letters, byte by byte
RECURSIVE StrLess(_, _)
StrLess(a, b) ==
    IF Len(b) = 0 THEN FALSE
    ELSE IF Len(a) = 0 THEN TRUE
    ELSE IF a[1] # b[1] THEN Ord(a[1]) < Ord(b[1])
    ELSE StrLess(Tail(a), Tail(b))

V1 == "gopath"
V2 == "gofmlroot"

InitName == <<"i", "n", "i", "t">>
HelpName == <<"h", "e", "l", "p">>
BogusName == <<"r", "u", "n">>

\* the descriptor of the init command, by variant of init.go
initCommand(v) ==
    [Name |-> InitName,
     Short |-> IF v = V1 THEN "initialize a gofml" ELSE "initialize a gofml env"]

\* the descriptor of the help command
helpCommand == [Name |-> HelpName, Short |-> "help-short"]

\* commandList of init(), in registration order
commandList(v) == <<initCommand(v), helpCommand>>

\* the commands map built by init(): command name -> descriptor
commands(v) ==
    LET list == commandList(v)
    IN  [name \in {list[i].Name : i \in 1..Len(list)} |->
            list[CHOOSE i \in 1..Len(list) :
                    /\ list[i].Name = name
                    /\ \A j \in (i + 1)..Len(list) : list[j].Name # name]]

\* the keys of a map in the order {{range}} of text/template visits them
RECURSIVE SortedKeys(_)
SortedKeys(keys) ==
    IF keys = {} THEN <<>>
    ELSE LET least == CHOOSE k \in keys : \A o \in keys \ {k} : StrLess(k, o)
         IN  <<least>> \o SortedKeys(keys \ {least})

\* mutant: the keys visited from the greatest to the least
RangeKeys_Descending(m) ==
    LET up == SortedKeys(DOMAIN m)
    IN  [i \in 1..Len(up) |-> up[Len(up) + 1 - i]]

RangeKeys(m) == SortedKeys(DOMAIN m)

\* printf "%-8s": pad on the right with spaces to width
RECURSIVE PadRight(_, _)
PadRight(s, width) == IF Len(s) >= width THEN s ELSE PadRight(Append(s, " "), width)

NameWidth == 8

\* the command lines that executing usageTemplate over the commands map writes
UsageLines(v) ==
    LET m == commands(v)
        keys == RangeKeys(m)
    IN  [i \in 1..Len(keys) |-> <<PadRight(m[keys[i]].Name, NameWidth), m[keys[i]].Short>>]

\* what usage() writes to standard error
usage(v) == <<"usage", UsageLines(v)>>

\* ---------------------------------------------------------------- init task
Fallback1 == <<Sep, "work", Sep, "gofml">>
Fallback2 == <<"~", Sep, "gofml">>
SrcDir == <<"src">>
EnvrcName == <<Dot, "envrc">>

\* an optional value: <<>> when absent, <<v>> when given
Absent == <<>>
Given(v) == <<v>>
IsGiven(opt) == opt # Absent

\* the value flags.String leaves after Parse
FlagValue(opt, default) == IF IsGiven(opt) THEN opt[1] ELSE default

\* mutant: GOFMLROOT is not consulted
getGofmlRoot_IgnoreEnv(environ) == Fallback2

\* getGofmlRoot
getGofmlRoot(environ) == IF environ = EmptyStr THEN Fallback2 ELSE environ

NoTask == [kind |-> "none"]

\* mutant: the name is not defaulted from the import path
ProjectNameOf_NoDefault(n0, importPath) == n0

\* the project name: the -n value, or the base of the import path when it is empty
ProjectNameOf(n0, importPath) == IF n0 = EmptyStr THEN Base(importPath) ELSE n0

\* mutant: the project name is left out of the workspace path
GoFmlPathOf_RootOnly(root, name) == root

\* the workspace path of the newer variant
GoFmlPathOf(root, name) == Join(<<root, name>>)

\* mutant: a missing import path is taken as the empty string
NewInitTask1_NoPathCheck(sub) ==
    LET importPath == IF Len(sub.pos) < 1 THEN EmptyStr ELSE sub.pos[1]
        g0 == FlagValue(sub.g, EmptyStr)
        p0 == FlagValue(sub.p, EmptyStr)
        name == ProjectNameOf(FlagValue(sub.n, EmptyStr), importPath)
        goPath == IF g0 = EmptyStr THEN Join(<<Fallback1, name>>) ELSE g0
        projectPath == IF p0 = EmptyStr THEN Join(<<goPath, SrcDir, importPath>>) ELSE p0
    IN  [task |-> [kind |-> "init", GoFmlRoot |-> EmptyStr, ImportPath |-> importPath,
                   ProjectName |-> name, GoFmlPath |-> goPath,
                   ProjectPath |-> projectPath],
         err |-> "nil"]

\* NewInitTask of the older variant (flags -g -p -n); sub.pos is flags.Args()
NewInitTask1(sub) ==
    IF Len(sub.pos) < 1 THEN [task |-> NoTask, err |-> "no import path specified"]
    ELSE LET importPath == sub.pos[1]
             n0 == FlagValue(sub.n, EmptyStr)
             g0 == FlagValue(sub.g, EmptyStr)
             p0 == FlagValue(sub.p, EmptyStr)
             name == ProjectNameOf(n0, importPath)
             goPath == IF g0 = EmptyStr THEN Join(<<Fallback1, name>>) ELSE g0
             projectPath == IF p0 = EmptyStr THEN Join(<<goPath, SrcDir, importPath>>) ELSE p0
         IN  [task |-> [kind |-> "init", GoFmlRoot |-> EmptyStr, ImportPath |-> importPath,
                        ProjectName |-> name, GoFmlPath |-> goPath,
                        ProjectPath |-> projectPath],
              err |-> "nil"]

\* NewInitTask of the newer variant (flags -g -n, GOFMLROOT)
NewInitTask2(sub, environ) ==
    IF Len(sub.pos) < 1 THEN [task |-> NoTask, err |-> "no import path specified"]
    ELSE LET importPath == sub.pos[1]
             root == FlagValue(sub.g, getGofmlRoot(environ))
             n0 == FlagValue(sub.n, EmptyStr)
             name == ProjectNameOf(n0, importPath)
             goFmlPath == GoFmlPathOf(root, name)
             projectPath == Join(<<goFmlPath, SrcDir, importPath>>)
         IN  [task |-> [kind |-> "init", GoFmlRoot |-> root, ImportPath |-> importPath,
                        ProjectName |-> name, GoFmlPath |-> goFmlPath,
                        ProjectPath |-> projectPath],
              err |-> "nil"]

\* initCommand.GetTask
NewInitTask(v, sub, environ) ==
    IF v = V1 THEN NewInitTask1(sub) ELSE NewInitTask2(sub, environ)

\* flags.Parse of the init flag set fails: an undefined flag (-p is one in the
\* newer variant), or -h
FlagsParseFails(v, sub) == sub.ferr # "none"

\* executing the script template over the task
Script(t) ==
    <<"\n", "export GOFML=">> \o t.ImportPath
        \o <<"\n", "export GOPATH=">> \o t.GoFmlPath
        \o <<"\n", "export PATH=\"$GOPATH/bin:$PATH\"", "\n">>

\* filepath.Join(task.GoFmlPath, ".envrc")
EnvrcPath(t) == Join(<<t.GoFmlPath, EnvrcName>>)

\* -------------------------------------------------------------- filesystem
\* the working directory of the process
Cwd == <<Sep, "w">>

\* the absolute, cleaned name the kernel resolves a non-empty path to
Abs(path) == IF path[1] = Sep THEN Clean(path) ELSE Clean(Cwd \o <<Sep>> \o path)

\* the directory that holds the absolute path a
Parent(a) ==
    LET i == LastSep(a, Len(a))
    IN  IF i <= 1 THEN <<Sep>> ELSE SubSeq(a, 1, i - 1)

\* the directories from below the root down to a, outermost first
RECURSIVE Chain(_)
Chain(a) == IF a = <<Sep>> THEN <<>> ELSE Append(Chain(Parent(a)), a)

Paths(files) == DOMAIN files

HasChildren(d, f, a) == \E x \in (d \cup Paths(f)) \ {<<Sep>>} : Parent(x) = a

\* os.MkdirAll(path): the outcomes; an existing directory is no error, a file
\* on the way is ENOTDIR, and a failing mkdir (the first or the last one) leaves
\* the ancestors made so far
MkdirAll(d, f, path) ==
    LET chain == Chain(Abs(path))
        n == Len(chain)
        have == Cardinality({i \in 1..n : chain[i] \in d})
    IN  IF \E i \in 1..n : chain[i] \in Paths(f)
           THEN {[dirs |-> d, err |-> "ENOTDIR", fault |-> FALSE]}
           ELSE {[dirs |-> d \cup {chain[i] : i \in 1..n}, err |-> "nil", fault |-> FALSE]}
                \cup {[dirs |-> d \cup {chain[i] : i \in 1..j}, err |-> "EACCES", fault |-> TRUE] :
                        j \in {have, n - 1} \cap (have..(n - 1))}

\* os.Remove(path): the outcomes; a file or an empty directory is removed
Remove(d, f, path) ==
    LET a == Abs(path)
    IN  IF a \in Paths(f)
           THEN {[dirs |-> d, files |-> [x \in Paths(f) \ {a} |-> f[x]], fault |-> FALSE],
                 [dirs |-> d, files |-> f, fault |-> TRUE]}
        ELSE IF a \in d /\ ~HasChildren(d, f, a)
           THEN {[dirs |-> d \ {a}, files |-> f, fault |-> FALSE],
                 [dirs |-> d, files |-> f, fault |-> TRUE]}
        ELSE {[dirs |-> d, files |-> f, fault |-> FALSE]}

\* mutant: the file is opened for appending, not truncated
WriteFile_Append(d, f, path, data) ==
    LET a == Abs(path)
        old == IF a \in Paths(f) THEN f[a] ELSE EmptyStr
    IN  IF Parent(a) \notin d
           THEN {[files |-> f, err |-> "ENOENT", fault |-> FALSE]}
        ELSE IF a \in d
           THEN {[files |-> f, err |-> "EISDIR", fault |-> FALSE]}
        ELSE {[files |-> (a :> old \o data) @@ f, err |-> "nil", fault |-> FALSE],
              [files |-> f, err |-> "EACCES", fault |-> TRUE]}

\* ioutil.WriteFile(path, data): open with O_WRONLY|O_CREATE|O_TRUNC, write, close
WriteFile(d, f, path, data) ==
    LET a == Abs(path)
    IN  IF Parent(a) \notin d
           THEN {[files |-> f, err |-> "ENOENT", fault |-> FALSE]}
        ELSE IF a \in d
           THEN {[files |-> f, err |-> "EISDIR", fault |-> FALSE]}
        ELSE {[files |-> (a :> data) @@ f, err |-> "nil", fault |-> FALSE],
              [files |-> f, err |-> "EACCES", fault |-> TRUE],
              [files |-> (a :> EmptyStr) @@ f, err |-> "EIO", fault |-> TRUE]}

\* ------------------------------------------------------------------ inputs
Components == {EmptyStr, <<"a">>, <<Dot, Dot>>, EnvrcName}
ImportPaths ==
    {StringsJoin(cs) : cs \in UNION {[1..k -> Components] : k \in 0..MaxComps}}
NameVals == {EmptyStr, <<"n">>}
RootVals == {EmptyStr, <<Sep, "g">>}
\* the -p values; the older variant alone defines -p
ProjVals(v) == IF v = V1 THEN {<<Sep, "p">>} ELSE {}
\* the GOFMLROOT values; the newer variant alone reads it
EnvVals(v) == IF v = V2 THEN {EmptyStr, <<Sep, "e">>} ELSE {EmptyStr}
Opt(S) == {Absent} \cup {Given(x) : x \in S}

NoSub == [ferr |-> "none", g |-> Absent, n |-> Absent, p |-> Absent, pos |-> <<>>]

\* the argument lists of the init command: its flags and positional arguments
InitSubs(v) ==
    [ferr : {"none"}, g : Opt(RootVals), n : Opt(NameVals), p : Opt(ProjVals(v)),
     pos : Opt(ImportPaths)]
    \cup {[NoSub EXCEPT !.ferr = e] : e \in {"bad", "help"}}

\* the command lines: gerr is the outcome of flag.Parse in Main, cmd is args[0]
\* when there is one, sub is args[1:]
Argvs(v) ==
    {[gerr |-> e, cmd |-> Absent, sub |-> NoSub] : e \in {"none", "bad", "help"}}
    \cup {[gerr |-> "none", cmd |-> Given(HelpName), sub |-> NoSub],
          [gerr |-> "none", cmd |-> Given(HelpName),
           sub |-> [NoSub EXCEPT !.pos = <<InitName>>]],
          [gerr |-> "none", cmd |-> Given(BogusName), sub |-> NoSub]}
    \cup {[gerr |-> "none", cmd |-> Given(InitName), sub |-> s] : s \in InitSubs(v)}

Stale == <<"stale">>

\* the filesystems the program may find: nothing but the working directory, or
\* workspaces with a script left by an earlier program
InitialFS ==
    {[dirs |-> {<<Sep>>, Cwd}, files |-> <<>>],
     [dirs |-> {<<Sep>>, Cwd, <<Sep, "g">>, <<Sep, "g", Sep, "n">>},
      files |-> (<<Sep, "g", Sep>> \o EnvrcName :> Stale)
                 @@ (<<Sep, "g", Sep, "n", Sep>> \o EnvrcName :> Stale)]}

\* ------------------------------------------------------------------- state
VARIABLES
    variant,    \* which init.go is built
    argv,       \* the command line of the running (or last) process
    environ,    \* the value of GOFMLROOT
    dirs,       \* the directories of the filesystem
    files,      \* the files of the filesystem: path -> content
    pc,         \* where the process is
    task,       \* the task GetTask returned
    err,        \* the error the last step returned
    exitcode,   \* the exit status, -1 while the process runs
    stdout,     \* what the process wrote to standard output
    stderr,     \* what the process wrote to standard error
    fsops,      \* the filesystem calls the process made, in order
    runs,       \* the number of processes started
    faulted,    \* an I/O fault hit the process
    prev        \* the exit status and the script at the end of the previous process

vars == <<variant, argv, environ, dirs, files, pc, task, err, exitcode, stdout,
          stderr, fsops, runs, faulted, prev>>

NoPrev == [exitcode |-> -1, envrc |-> Absent]

Fresh ==
    /\ pc = "main"
    /\ task = NoTask
    /\ err = "nil"
    /\ exitcode = -1
    /\ stdout = <<>>
    /\ stderr = <<>>
    /\ fsops = <<>>
    /\ faulted = FALSE

Init ==
    /\ variant \in {V1, V2}
    /\ argv \in Argvs(variant)
    /\ environ \in EnvVals(variant)
    /\ \E fs \in InitialFS : dirs = fs.dirs /\ files = fs.files
    /\ Fresh
    /\ runs = 1
    /\ prev = NoPrev

\* os.Exit(code)
Exit(code) ==
    /\ pc' = "exited"
    /\ exitcode' = code

\* the exit statuses of a flag set with ExitOnError: 2, or for -h 0 or 2 by Go release
FlagExitCodes(e) == IF e = "help" THEN {0, 2} ELSE {2}

\* mutant: the usage text follows the message
GetTaskFailure_Usage(v, cmd) == << <<"failed to parse command", cmd>>, usage(v)>>

\* what Main writes when GetTask fails
GetTaskFailure(v, cmd) == << <<"failed to parse command", cmd>> >>

\* helpCommand.GetTask
NewHelpTask(sub) == [task |-> [kind |-> "help", topic |-> sub.pos], err |-> "nil"]

GetTask(v, cmd, sub, e) ==
    IF cmd = InitName THEN NewInitTask(v, sub, e) ELSE NewHelpTask(sub)

\* Main up to task.Run
Main ==
    /\ pc = "main"
    /\ UNCHANGED <<variant, argv, environ, dirs, files, err, stdout, fsops, runs,
                   faulted, prev>>
    /\ IF argv.gerr # "none"
          THEN /\ stderr' = <<usage(variant)>>
               /\ \E c \in FlagExitCodes(argv.gerr) : Exit(c)
               /\ task' = task
       ELSE IF ~IsGiven(argv.cmd) \/ (argv.cmd[1] = HelpName /\ Len(argv.sub.pos) = 0)
          THEN /\ stderr' = <<usage(variant)>>
               /\ Exit(1)
               /\ task' = task
       ELSE IF argv.cmd[1] \notin DOMAIN commands(variant)
          THEN /\ stderr' = << <<"unrecognized command", argv.cmd[1]>>, usage(variant)>>
               /\ Exit(1)
               /\ task' = task
       ELSE IF argv.cmd[1] = InitName /\ FlagsParseFails(variant, argv.sub)
          THEN /\ stderr' = << <<"flag usage", InitName>> >>
               /\ \E c \in FlagExitCodes(argv.sub.ferr) : Exit(c)
               /\ task' = task
       ELSE LET got == GetTask(variant, argv.cmd[1], argv.sub, environ)
            IN  IF got.err # "nil"
                   THEN /\ stderr' = GetTaskFailure(variant, argv.cmd[1])
                        /\ Exit(1)
                        /\ task' = task
                   ELSE /\ task' = got.task
                        /\ pc' = "run"
                        /\ UNCHANGED <<stderr, exitcode>>

\* helpTask.Run
HelpRun ==
    /\ pc = "run"
    /\ task.kind = "help"
    /\ stdout' = << <<"help", task.topic>> >>
    /\ err' = "nil"
    /\ pc' = "return"
    /\ UNCHANGED <<variant, argv, environ, dirs, files, task, exitcode, stderr,
                   fsops, runs, faulted, prev>>

\* InitTask.Run up to makeDir
RunBegin ==
    /\ pc = "run"
    /\ task.kind = "init"
    /\ stdout' = << <<"initializing">>, <<"fields", task>> >>
    /\ pc' = "makeDir"
    /\ UNCHANGED <<variant, argv, environ, dirs, files, task, err, exitcode, stderr,
                   fsops, runs, faulted, prev>>

\* mutant: the error of a step is not looked at
AfterStep_IgnoreError(e, next) == next

\* where Run goes after a step that returned e
AfterStep(e, next) == IF e # "nil" THEN "return" ELSE next

\* InitTask.makeDir
makeDir ==
    /\ pc = "makeDir"
    /\ \E r \in MkdirAll(dirs, files, task.ProjectPath) :
          /\ dirs' = r.dirs
          /\ err' = r.err
          /\ faulted' = (faulted \/ r.fault)
          /\ pc' = AfterStep(r.err, "writeEnvrc")
    /\ fsops' = Append(fsops, <<"MkdirAll", task.ProjectPath>>)
    /\ stdout' = Append(stdout, <<"create project directory", task.ProjectPath>>)
    /\ UNCHANGED <<variant, argv, environ, files, task, exitcode, stderr, runs, prev>>

\* InitTask.writeEnvrc
writeEnvrc ==
    /\ pc = "writeEnvrc"
    /\ \E rm \in Remove(dirs, files, EnvrcPath(task)) :
       \E wr \in WriteFile(rm.dirs, rm.files, EnvrcPath(task), Script(task)) :
          /\ dirs' = rm.dirs
          /\ files' = wr.files
          /\ err' = wr.err
          /\ faulted' = (faulted \/ rm.fault \/ wr.fault)
          /\ pc' = AfterStep(wr.err, "printHints")
    /\ fsops' = fsops \o << <<"Remove", EnvrcPath(task)>>, <<"WriteFile", EnvrcPath(task)>> >>
    /\ stdout' = Append(stdout, <<"wrote activation script", EnvrcPath(task)>>)
    /\ UNCHANGED <<variant, argv, environ, task, exitcode, stderr, runs, prev>>

\* InitTask.printHints, and the end of Run
printHints ==
    /\ pc = "printHints"
    /\ stdout' = stdout \o << <<"hint", task.ProjectPath>>, <<"done">> >>
    /\ err' = "nil"
    /\ pc' = "return"
    /\ UNCHANGED <<variant, argv, environ, dirs, files, task, exitcode, stderr, fsops,
                   runs, faulted, prev>>

\* Main after task.Run
MainExit ==
    /\ pc = "return"
    /\ IF err # "nil"
          THEN /\ stderr' = Append(stderr, <<"error running command", err>>)
               /\ Exit(1)
          ELSE /\ stderr' = stderr
               /\ Exit(0)
    /\ UNCHANGED <<variant, argv, environ, dirs, files, task, err, stdout, fsops,
                   runs, faulted, prev>>

\* the script file of the task of the last process, if there is one
EnvrcNow ==
    IF task.kind = "init" /\ Abs(EnvrcPath(task)) \in Paths(files)
       THEN Given(files[Abs(EnvrcPath(task))])
       ELSE Absent

\* the program is started again with the same command line and environment
Reinvoke ==
    /\ pc = "exited"
    /\ runs < MaxRuns
    /\ runs' = runs + 1
    /\ prev' = [exitcode |-> exitcode, envrc |-> EnvrcNow]
    /\ pc' = "main"
    /\ task' = NoTask
    /\ err' = "nil"
    /\ exitcode' = -1
    /\ stdout' = <<>>
    /\ stderr' = <<>>
    /\ fsops' = <<>>
    /\ faulted' = FALSE
    /\ UNCHANGED <<variant, argv, environ, dirs, files>>

Next ==
    \/ Main
    \/ HelpRun
    \/ RunBegin
    \/ makeDir
    \/ writeEnvrc
    \/ printHints
    \/ MainExit
    \/ Reinvoke

Spec == Init /\ [][Next]_vars
\* ------------------------------------------------------------------ claims
InitRuns == task.kind = "init"
Sub == argv.sub
InitArgv == argv.gerr = "none" /\ argv.cmd = Given(InitName)
FlagsParsed == InitArgv /\ ~FlagsParseFails(variant, Sub)
UnknownArgv == argv.gerr = "none" /\ IsGiven(argv.cmd)
                   /\ argv.cmd[1] \notin {InitName, HelpName}
NonEmptyGiven(opt) == IsGiven(opt) /\ opt[1] # EmptyStr

\* the root by the stated precedence: -g, else GOFMLROOT, else the fallback
RootByPrecedence ==
    IF IsGiven(Sub.g) THEN Sub.g[1]
    ELSE IF variant = V2 /\ environ # EmptyStr THEN environ
    ELSE IF variant = V2 THEN Fallback2
    ELSE Fallback1

C3_Idempotent ==
    (pc = "exited" /\ InitRuns /\ runs > 1 /\ prev.exitcode = 0 /\ ~faulted) =>
        /\ exitcode = 0
        /\ EnvrcNow = prev.envrc

\* the command lines C4 is about: no argument, help alone, an unknown
\* command, init without an import path
NoTaskArgv ==
    /\ argv.gerr = "none"
    /\ \/ ~IsGiven(argv.cmd)
       \/ argv.cmd = Given(HelpName) /\ Len(Sub.pos) = 0
       \/ UnknownArgv
       \/ InitArgv /\ Len(Sub.pos) = 0

\* C4: such an invocation makes no filesystem call and never reaches a task's
\* Run, so the directories and files stay as the process found them.
C4_NoFilesystemEffect ==
    NoTaskArgv =>
        /\ fsops = <<>>
        /\ pc \in {"main", "exited"}
        /\ task = NoTask
        /\ [dirs |-> dirs, files |-> files] \in InitialFS

C4_Witness ==
    /\ pc = "exited" /\ InitArgv /\ FlagsParsed /\ Len(Sub.pos) = 0
    /\ IsGiven(Sub.g) /\ files # <<>> /\ runs > 1

UsageOnStderr == \E i \in 1..Len(stderr) : stderr[i] = usage(variant)

UsagesWritten == {stderr[i][2] : i \in {j \in 1..Len(stderr) : stderr[j][1] = "usage"}}

Registered == {commandList(variant)[i] : i \in 1..Len(commandList(variant))}

\* C6 as stated: the usage text lists the commands in the order of commandList
\* (init before help).
C6_Original ==
    \A lines \in UsagesWritten :
        /\ Len(lines) = Len(commandList(variant))
        /\ \A i \in 1..Len(lines) :
              lines[i] = <<PadRight(commandList(variant)[i].Name, NameWidth),
                           commandList(variant)[i].Short>>

\* C6 amended: the usage text lists every registered command exactly once,
\* with its short description, in ascending order of the command names (help
\* before init), the same on every invocation.
C6_SortedByName ==
    \A lines \in UsagesWritten :
        /\ Len(lines) = Cardinality(Registered)
        /\ \A c \in Registered :
              Cardinality({i \in 1..Len(lines) :
                  lines[i] = <<PadRight(c.Name, NameWidth), c.Short>>}) = 1
        /\ \A i \in 1..(Len(lines) - 1) :
              \E c1 \in Registered, c2 \in Registered :
                  /\ lines[i][1] = PadRight(c1.Name, NameWidth)
                  /\ lines[i + 1][1] = PadRight(c2.Name, NameWidth)
                  /\ StrLess(c1.Name, c2.Name)

C6_Witness ==
    /\ pc = "exited" /\ UnknownArgv /\ UsagesWritten # {} /\ runs > 1

\* the filesystem calls of a complete run of the init task, in order
RunOps ==
    << <<"MkdirAll", task.ProjectPath>>, <<"Remove", EnvrcPath(task)>>,
       <<"WriteFile", EnvrcPath(task)>> >>

IsPrefix(a, b) == Len(a) <= Len(b) /\ a = SubSeq(b, 1, Len(a))

HintPrinted == \E i \in 1..Len(stdout) : stdout[i][1] \in {"hint", "done"}

C7_State ==
    InitRuns =>
        /\ IsPrefix(fsops, RunOps)
        /\ HintPrinted => (fsops = RunOps /\ err = "nil")
        /\ err # "nil" => /\ pc \in {"return", "exited"}
                          /\ ~HintPrinted
        /\ (err # "nil" /\ Len(fsops) = 1) =>
              \A i \in 1..Len(stdout) : stdout[i][1] # "wrote activation script"
        /\ (pc = "exited" /\ err # "nil") =>
              /\ exitcode = 1
              /\ stderr = << <<"error running command", err>> >>
        /\ (pc = "exited" /\ exitcode = 0) =>
              /\ fsops = RunOps
              /\ err = "nil"
              /\ stdout[Len(stdout)] = <<"done">>
              /\ stdout[Len(stdout) - 1] = <<"hint", task.ProjectPath>>

C7_Step == (InitRuns /\ err # "nil") => (dirs' = dirs /\ files' = files /\ fsops' \in {fsops, <<>>})

\* C7: Run makes its filesystem calls in the order MkdirAll, Remove, WriteFile
\* and prints the hint last; once a step has failed no later step runs, Main
\* reports the error and exits with 1, and nothing touches the filesystem
\* again; the exit status of a process that started Run is 0 only when every
\* step succeeded.
C7_RunAborts == [] C7_State /\ [][C7_Step]_vars

C7_Witness ==
    /\ pc = "exited" /\ InitRuns /\ exitcode = 1 /\ Len(fsops) = 1
    /\ err = "EACCES" /\ dirs # {<<Sep>>, Cwd}

\* the three export lines for an import path and a workspace path
ThreeExports(importPath, workspace) ==
    <<"\n">> \o <<"export GOFML=">> \o importPath \o <<"\n">>
        \o <<"export GOPATH=">> \o workspace \o <<"\n">>
        \o <<"export PATH=\"$GOPATH/bin:$PATH\"">> \o <<"\n">>

C9_FieldsNonEmpty ==
    /\ InitRuns =>
          /\ task.ProjectName # EmptyStr
          /\ task.GoFmlPath # EmptyStr
          /\ task.ProjectPath # EmptyStr
          /\ Len(Sub.pos) > 0
    /\ (InitArgv /\ Len(Sub.pos) = 0) =>
          /\ task = NoTask
          /\ pc \in {"main", "exited"}
          /\ (pc = "exited" /\ FlagsParsed) =>
                (exitcode = 1 /\ stderr = GetTaskFailure(variant, InitName))

C9_Witness ==
    /\ pc = "makeDir" /\ InitRuns
    /\ Sub.pos = Given(EmptyStr) /\ Sub.n = Given(EmptyStr) /\ Sub.g = Given(EmptyStr)

\* C10 as stated: when makeDir has succeeded the workspace directory, which
\* receives .envrc, exists: it is the project directory or one above it.
C10_WorkspaceExists ==
    pc = "writeEnvrc" =>
        /\ Abs(task.GoFmlPath) \in dirs
        /\ \/ Abs(task.GoFmlPath) = <<Sep>>
           \/ \E i \in 1..Len(Chain(Abs(task.ProjectPath))) :
                 Chain(Abs(task.ProjectPath))[i] = Abs(task.GoFmlPath)
====
